---- MODULE Spec2Model ----
(***************************************************************************)
(* load_pdfs of generate_benchmark_with_difficulty.py: whitespace          *)
(* normalisation, sentence segmentation, greedy chunk accumulation with    *)
(* sentence-aligned overlap, and the per-batch statistics.                 *)
(*                                                                         *)
(* Text is a sequence of one-character strings.  A PDF file is a record    *)
(* [ok, pages]: ok = FALSE is a file pypdf cannot open (PdfReader raises), *)
(* pages are the strings extract_text() returns.  An exception raised by   *)
(* extract_text() itself reaches the same handler from the same place,     *)
(* before line 64, with only the local full_text touched.                  *)
(***************************************************************************)
EXTENDS Integers, Sequences, FiniteSets, TLC

\* ------------------------------------------------------------------ bounds
MaxDocs == 2
MaxPages == 4
MaxWord == 6

\* Target chunk sizes tried: non-positive (0), overlap budget 0 (2),
\* budget 2 (11) and budget 3 (12).
ChunkSizes == {0, 2, 11, 12}

\* ------------------------------------------------------------- characters
IsSpace(c) == c \in {" ", "\n", "\t"}
IsTerm(c) == c \in {".", "!", "?"}

Word(n) == [i \in 1..n |-> "a"]

\* What extract_text() may return for a page: a word without terminator, a
\* lone terminator, a long terminated word.
PageTexts == {<<"a">>, <<".">>, Word(MaxWord) \o <<".">>}

RECURSIVE SeqsUpTo(_, _)
SeqsUpTo(S, n) ==
    IF n = 0 THEN {<<>>}
    ELSE LET shorter == SeqsUpTo(S, n - 1)
         IN shorter \cup {Append(s, x) : s \in {t \in shorter : Len(t) = n - 1}, x \in S}

\* The files of at most p pages: those that open, and one that does not.
GoodFiles(p) == {[ok |-> TRUE, pages |-> ps] : ps \in SeqsUpTo(PageTexts, p)}
BadFile == [ok |-> FALSE, pages |-> <<>>]
Files(p) == GoodFiles(p) \cup {BadFile}

\* The directories of at most n files holding at most p pages in all.
RECURSIVE BatchesUpTo(_, _)
BatchesUpTo(n, p) ==
    IF n = 0 THEN {<<>>}
    ELSE {<<>>} \cup
         UNION {{<<f>> \o rest : rest \in BatchesUpTo(n - 1, p - Len(f.pages))} :
                f \in Files(p)}

\* The directories tried: up to MaxDocs files holding MaxPages pages in all.
Batches == BatchesUpTo(MaxDocs, MaxPages)

\* ------------------------------------------------------------ text helpers
\* str.strip()
RECURSIVE LStrip(_)
LStrip(t) == IF t # <<>> /\ IsSpace(Head(t)) THEN LStrip(Tail(t)) ELSE t

RECURSIVE RStrip(_)
RStrip(t) ==
    IF t # <<>> /\ IsSpace(t[Len(t)]) THEN RStrip(SubSeq(t, 1, Len(t) - 1)) ELSE t

Strip(t) == RStrip(LStrip(t))

\* re.sub(r'\s+', ' ', t): every maximal whitespace run becomes one space.
RECURSIVE Collapse(_)
Collapse(t) ==
    IF t = <<>> THEN <<>>
    ELSE IF IsSpace(Head(t))
         THEN <<" ">> \o Collapse(LStrip(t))
         ELSE <<Head(t)>> \o Collapse(Tail(t))

\* full_text after the page loop: every page's text followed by "\n".
RECURSIVE ExtractText(_)
ExtractText(pages) ==
    IF pages = <<>> THEN <<>>
    ELSE Head(pages) \o <<"\n">> \o ExtractText(Tail(pages))

CleanText(raw) == Strip(Collapse(raw))

\* First index >= i of t that does not satisfy the run's character class.
RECURSIVE TermRunEnd(_, _)
TermRunEnd(t, i) == IF i <= Len(t) /\ IsTerm(t[i]) THEN TermRunEnd(t, i + 1) ELSE i

RECURSIVE SpaceRunEnd(_, _)
SpaceRunEnd(t, i) == IF i <= Len(t) /\ IsSpace(t[i]) THEN SpaceRunEnd(t, i + 1) ELSE i

\* re.split(r'([.!?]+\s+)', t): the pieces between matches and, the pattern
\* being one capture group, the matches themselves.  i scans for the next
\* match, start is where the piece being read began.
RECURSIVE SplitFrom(_, _, _, _)
SplitFrom(t, i, start, acc) ==
    IF i > Len(t) THEN Append(acc, SubSeq(t, start, Len(t)))
    ELSE LET j == TermRunEnd(t, i)
             k == SpaceRunEnd(t, j)
         IN IF j > i /\ k > j
            THEN SplitFrom(t, k, k,
                           acc \o <<SubSeq(t, start, i - 1), SubSeq(t, i, k - 1)>>)
            ELSE SplitFrom(t, i + 1, start, acc)

ReSplit(t) == SplitFrom(t, 1, 1, <<>>)

\* The positions range(0, len(sentences)-1, 2) visits, counted from 1.
PairStarts(n) == {p \in 1..(n - 1) : p % 2 = 1}

\* The loop of lines 70-73 from position p on.
RECURSIVE Recombine(_, _)
Recombine(sentences, p) ==
    IF p \notin PairStarts(Len(sentences)) THEN <<>>
    ELSE LET sent == sentences[p] \o
                     (IF p + 1 <= Len(sentences) THEN sentences[p + 1] ELSE <<>>)
         IN (IF Strip(sent) # <<>> THEN <<Strip(sent)>> ELSE <<>>)
            \o Recombine(sentences, p + 2)

SplitSentences(text) == Recombine(ReSplit(text), 1)

\* ------------------------------------------------------------------- state
\* pdf_files, chunk_size: the directory's files and the parameter.
\* pc: where load_pdfs is; fi: the position of file_path in pdf_files;
\* si: the position of sent in clean_sentences.
\* full_text, clean_sentences, chunks, current_chunk, sentence_buffer, docs,
\* stats: the locals of those names.
\* branch: the branch of lines 82-104 the last pass of the loop took.
VARIABLES pdf_files, chunk_size, pc, fi, full_text, clean_sentences, si,
          chunks, current_chunk, sentence_buffer, branch, docs, stats

vars == <<pdf_files, chunk_size, pc, fi, full_text, clean_sentences, si,
          chunks, current_chunk, sentence_buffer, branch, docs, stats>>

\* The budget taken as four times the size instead of a quarter of it.
overlap_size_times4 == chunk_size * 4

\* Line 76.
overlap_size == chunk_size \div 4

Init ==
    /\ pdf_files \in Batches
    /\ chunk_size \in ChunkSizes
    /\ pc = "glob"
    /\ fi = 0
    /\ full_text = <<>>
    /\ clean_sentences = <<>>
    /\ si = 0
    /\ chunks = <<>>
    /\ current_chunk = <<>>
    /\ sentence_buffer = <<>>
    /\ branch = "none"
    /\ docs = <<>>
    /\ stats = [files |-> 0, chunks |-> 0, total_chars |-> 0]

\* ----------------------------------------------------------------- actions
\* Lines 44-51: list the directory; no PDF at all raises FileNotFoundError.
Glob ==
    /\ pc = "glob"
    /\ \/ /\ pdf_files = <<>>
          /\ pc' = "raised"
          /\ stats' = stats
       \/ /\ pdf_files # <<>>
          /\ pc' = "for_file"
          /\ stats' = [files |-> Len(pdf_files), chunks |-> 0, total_chars |-> 0]
    /\ UNCHANGED <<pdf_files, chunk_size, fi, full_text, clean_sentences, si,
                   chunks, current_chunk, sentence_buffer, branch, docs>>

\* Line 53: the next file of the directory.
NextFile ==
    /\ pc = "for_file"
    /\ fi < Len(pdf_files)
    /\ fi' = fi + 1
    /\ pc' = "read"
    /\ UNCHANGED <<pdf_files, chunk_size, full_text, clean_sentences, si,
                   chunks, current_chunk, sentence_buffer, branch, docs, stats>>

\* Lines 57-61: open the file and join its pages' text.
ReadPdf ==
    /\ pc = "read"
    /\ pdf_files[fi].ok
    /\ full_text' = ExtractText(pdf_files[fi].pages)
    /\ pc' = "clean"
    /\ UNCHANGED <<pdf_files, chunk_size, fi, clean_sentences, si,
                   chunks, current_chunk, sentence_buffer, branch, docs, stats>>

\* Lines 57-58 raising: control goes to the handler of line 113.
ReadPdfRaises ==
    /\ pc = "read"
    /\ ~pdf_files[fi].ok
    /\ pc' = "except"
    /\ UNCHANGED <<pdf_files, chunk_size, fi, full_text, clean_sentences, si,
                   chunks, current_chunk, sentence_buffer, branch, docs, stats>>

\* The characters counted before the text is normalised.
CleanCountsRaw ==
    /\ pc = "clean"
    /\ full_text' = CleanText(full_text)
    /\ stats' = [stats EXCEPT !.total_chars = @ + Len(full_text)]
    /\ pc' = "split"
    /\ UNCHANGED <<pdf_files, chunk_size, fi, clean_sentences, si,
                   chunks, current_chunk, sentence_buffer, branch, docs>>

\* Lines 63-65.
Clean ==
    /\ pc = "clean"
    /\ full_text' = CleanText(full_text)
    /\ stats' = [stats EXCEPT !.total_chars = @ + Len(full_text')]
    /\ pc' = "split"
    /\ UNCHANGED <<pdf_files, chunk_size, fi, clean_sentences, si,
                   chunks, current_chunk, sentence_buffer, branch, docs>>

\* Lines 67-79: segment, and start the accumulator empty.
Split ==
    /\ pc = "split"
    /\ clean_sentences' = SplitSentences(full_text)
    /\ chunks' = <<>>
    /\ current_chunk' = <<>>
    /\ sentence_buffer' = <<>>
    /\ si' = 1
    /\ branch' = "none"
    /\ pc' = "accumulate"
    /\ UNCHANGED <<pdf_files, chunk_size, fi, full_text, docs, stats>>

\* The separator counted twice.
FitsTwoSeparators(cur, sent, size) == Len(cur) + Len(sent) + 2 < size

\* Line 82: the sentence still fits the chunk being built.
Fits(cur, sent, size) == Len(cur) + Len(sent) + 1 < size

\* The comparison of line 94 turned round.
InBudgetInverted(test_overlap, budget) == Len(test_overlap) >= budget

\* The comparison of line 94 made non-strict.
InBudgetNonStrict(test_overlap, budget) == Len(test_overlap) <= budget

\* Line 94: the overlap with one more sentence in front stays in budget.
InBudget(test_overlap, budget) == Len(test_overlap) < budget

\* Lines 90-98: scan sentence_buffer[1..k] from its last sentence back.
RECURSIVE OverlapScan(_, _, _, _, _)
OverlapScan(buffer, k, overlap_chunk, overlap_sentences, budget) ==
    IF k = 0
    THEN [chunk |-> overlap_chunk, sentences |-> overlap_sentences]
    ELSE LET s == buffer[k]
             test_overlap == s \o <<" ">> \o overlap_chunk
         IN IF InBudget(test_overlap, budget)
            THEN OverlapScan(buffer, k - 1, test_overlap,
                             <<s>> \o overlap_sentences, budget)
            ELSE [chunk |-> overlap_chunk, sentences |-> overlap_sentences]

Overlap(buffer, budget) == OverlapScan(buffer, Len(buffer), <<>>, <<>>, budget)

\* Lines 82-84.
AppendSentence ==
    /\ pc = "accumulate"
    /\ si <= Len(clean_sentences)
    /\ LET sent == clean_sentences[si]
       IN /\ Fits(current_chunk, sent, chunk_size)
          /\ current_chunk' = current_chunk \o sent \o <<" ">>
          /\ sentence_buffer' = Append(sentence_buffer, sent)
    /\ si' = si + 1
    /\ branch' = "append"
    /\ UNCHANGED <<pdf_files, chunk_size, pc, fi, full_text, clean_sentences,
                   chunks, docs, stats>>

\* Lines 86-101: emit the chunk and seed the next one with the overlap.
FlushChunk ==
    /\ pc = "accumulate"
    /\ si <= Len(clean_sentences)
    /\ LET sent == clean_sentences[si]
           ov == Overlap(sentence_buffer, overlap_size)
       IN /\ ~Fits(current_chunk, sent, chunk_size)
          /\ current_chunk # <<>>
          /\ chunks' = Append(chunks, Strip(current_chunk))
          /\ current_chunk' = ov.chunk \o sent \o <<" ">>
          /\ sentence_buffer' = ov.sentences \o <<sent>>
    /\ si' = si + 1
    /\ branch' = "flush"
    /\ UNCHANGED <<pdf_files, chunk_size, pc, fi, full_text, clean_sentences,
                   docs, stats>>

\* Lines 102-104: nothing accumulated yet and the sentence does not fit.
StartChunk ==
    /\ pc = "accumulate"
    /\ si <= Len(clean_sentences)
    /\ LET sent == clean_sentences[si]
       IN /\ ~Fits(current_chunk, sent, chunk_size)
          /\ current_chunk = <<>>
          /\ current_chunk' = sent \o <<" ">>
          /\ sentence_buffer' = <<sent>>
    /\ si' = si + 1
    /\ branch' = "start"
    /\ UNCHANGED <<pdf_files, chunk_size, pc, fi, full_text, clean_sentences,
                   chunks, docs, stats>>

\* Lines 106-107: the chunk list with what is left in the accumulator.
FinalChunks(done, cur) == IF cur # <<>> THEN Append(done, Strip(cur)) ELSE done

\* The document's chunks put in front of the collection.
FinishDocumentPrepends ==
    /\ pc = "accumulate"
    /\ si > Len(clean_sentences)
    /\ chunks' = FinalChunks(chunks, current_chunk)
    /\ docs' = chunks' \o docs
    /\ stats' = [stats EXCEPT !.chunks = @ + Len(chunks')]
    /\ pc' = "for_file"
    /\ UNCHANGED <<pdf_files, chunk_size, fi, full_text, clean_sentences, si,
                   current_chunk, sentence_buffer, branch>>

\* Lines 106-111: the document's chunks join the collection and the count.
FinishDocument ==
    /\ pc = "accumulate"
    /\ si > Len(clean_sentences)
    /\ chunks' = FinalChunks(chunks, current_chunk)
    /\ docs' = docs \o chunks'
    /\ stats' = [stats EXCEPT !.chunks = @ + Len(chunks')]
    /\ pc' = "for_file"
    /\ UNCHANGED <<pdf_files, chunk_size, fi, full_text, clean_sentences, si,
                   current_chunk, sentence_buffer, branch>>

\* The handler ending the batch at the first file that fails.
HandleErrorAborts ==
    /\ pc = "except"
    /\ pc' = "done"
    /\ UNCHANGED <<pdf_files, chunk_size, fi, full_text, clean_sentences, si,
                   chunks, current_chunk, sentence_buffer, branch, docs, stats>>

\* Lines 113-114: report the error and go on with the next file.
HandleError ==
    /\ pc = "except"
    /\ pc' = "for_file"
    /\ UNCHANGED <<pdf_files, chunk_size, fi, full_text, clean_sentences, si,
                   chunks, current_chunk, sentence_buffer, branch, docs, stats>>

\* Lines 116-117.
Return ==
    /\ pc = "for_file"
    /\ fi = Len(pdf_files)
    /\ pc' = "done"
    /\ UNCHANGED <<pdf_files, chunk_size, fi, full_text, clean_sentences, si,
                   chunks, current_chunk, sentence_buffer, branch, docs, stats>>

Next ==
    \/ Glob
    \/ NextFile
    \/ ReadPdf
    \/ ReadPdfRaises
    \/ Clean
    \/ Split
    \/ AppendSentence
    \/ FlushChunk
    \/ StartChunk
    \/ FinishDocument
    \/ HandleError
    \/ Return

Spec == Init /\ [][Next]_vars

\* ------------------------------------------------- the run as one function
\* One pass of the loop body of lines 81-104 over the accumulator
\* acc = [chunks, cur, buf].
AccStep(acc, sent, size) ==
    IF Fits(acc.cur, sent, size)
    THEN [acc EXCEPT !.cur = @ \o sent \o <<" ">>, !.buf = Append(@, sent)]
    ELSE IF acc.cur # <<>>
         THEN LET ov == Overlap(acc.buf, size \div 4)
              IN [chunks |-> Append(acc.chunks, Strip(acc.cur)),
                  cur |-> ov.chunk \o sent \o <<" ">>,
                  buf |-> ov.sentences \o <<sent>>]
         ELSE [acc EXCEPT !.cur = sent \o <<" ">>, !.buf = <<sent>>]

RECURSIVE Accumulate(_, _, _)
Accumulate(sents, acc, size) ==
    IF sents = <<>> THEN acc
    ELSE Accumulate(Tail(sents), AccStep(acc, Head(sents), size), size)

\* Lines 63-107 for one file that opened: its normalised text and its chunks.
DocText(file) == CleanText(ExtractText(file.pages))

DocSentences(file) == IF file.ok THEN SplitSentences(DocText(file)) ELSE <<>>

DocChunks(file, size) ==
    LET acc == Accumulate(DocSentences(file),
                          [chunks |-> <<>>, cur |-> <<>>, buf |-> <<>>], size)
    IN FinalChunks(acc.chunks, acc.cur)

\* Lines 53-114 over a whole directory in which every file opens.
RECURSIVE LoadChunks(_, _)
LoadChunks(fs, size) ==
    IF fs = <<>> THEN <<>>
    ELSE DocChunks(Head(fs), size) \o LoadChunks(Tail(fs), size)

RECURSIVE LoadChars(_)
LoadChars(fs) == IF fs = <<>> THEN 0 ELSE Len(DocText(Head(fs))) + LoadChars(Tail(fs))

\* --------------------------------------------------- vocabulary of claims
Last(q) == q[Len(q)]

IsPrefix(p, q) == Len(p) <= Len(q) /\ SubSeq(q, 1, Len(p)) = p

IsSuffix(p, q) == Len(p) <= Len(q) /\ SubSeq(q, Len(q) - Len(p) + 1, Len(q)) = p

\* Sentences i..j of ss joined by single spaces.
RECURSIVE Join(_, _, _)
Join(ss, i, j) ==
    IF i > j THEN <<>>
    ELSE IF i = j THEN ss[i]
    ELSE ss[i] \o <<" ">> \o Join(ss, i + 1, j)

RECURSIVE SumLen(_)
SumLen(ss) == IF ss = <<>> THEN 0 ELSE Len(Head(ss)) + SumLen(Tail(ss))

RECURSIVE MaxSentenceLen(_)
MaxSentenceLen(ss) ==
    IF ss = <<>> THEN 0
    ELSE LET m == MaxSentenceLen(Tail(ss))
         IN IF Len(Head(ss)) > m THEN Len(Head(ss)) ELSE m

\* A terminator followed by whitespace somewhere in t.
HasBoundary(t) == \E i \in 1..(Len(t) - 1) : IsTerm(t[i]) /\ IsSpace(t[i + 1])

\* What follows the last terminator-plus-whitespace boundary of t.
Remainder(t) ==
    LET ends == {k \in 2..Len(t) : IsSpace(t[k]) /\ IsTerm(t[k - 1])}
    IN IF ends = {} THEN t
       ELSE SubSeq(t, (CHOOSE k \in ends : \A m \in ends : m <= k) + 1, Len(t))

\* The accumulator's variables belong to the file fi (and not to an earlier
\* one, as they do after a file failed to open).
Fresh ==
    \/ pc = "accumulate"
    \/ pc \in {"for_file", "done"} /\ fi >= 1 /\ pdf_files[fi].ok

\* A loop pass that emitted a chunk (lines 86-101).
FlushStep == pc = "accumulate" /\ pc' = "accumulate" /\ chunks' # chunks

OpenedFiles == SelectSeq(pdf_files, LAMBDA f : f.ok)

\* ----------------------------------------------------------------- claim C1
\* C1: segmentation keeps the trailing remainder: once a non-empty text is
\* segmented, its last sentence is what follows the last terminator-plus-
\* whitespace boundary, and a text with no such boundary is one sentence,
\* the whole text.
C1_RemainderKept ==
    (pc = "accumulate" /\ full_text # <<>>) =>
        /\ clean_sentences # <<>>
        /\ Last(clean_sentences) = Remainder(full_text)
        /\ (~HasBoundary(full_text) => clean_sentences = <<full_text>>)

\* ----------------------------------------------------------------- claim C2
\* Chunks k.. of the collection are runs of whole sentences of the files d..,
\* file by file in input order; within a file each run ends later than the
\* one before it, starts no later than one past that end (no sentence is
\* skipped), and the last run ends at the file's last sentence.  e is the
\* last sentence of file d already covered.
RECURSIVE Covers(_, _, _)
Covers(k, d, e) ==
    IF d > Len(pdf_files) THEN k > Len(docs)
    ELSE LET ss == DocSentences(pdf_files[d])
         IN \/ e = Len(ss) /\ Covers(k, d + 1, 0)
            \/ /\ k <= Len(docs)
               /\ \E j \in (e + 1)..Len(ss) : \E i \in 1..(e + 1) :
                      /\ docs[k] = Join(ss, i, j)
                      /\ Covers(k + 1, d, j)

\* C2: for a target size >= 1, the returned collection is, in file order and
\* within a file in increasing order of the last sentence, single-space joins
\* of contiguous runs of one file's sentences, and every sentence handed to
\* the accumulator lies in a chunk of its own file.
C2_ChunksAreSentenceRuns ==
    (pc = "done" /\ chunk_size >= 1) => Covers(1, 1, 0)

C2_Witness ==
    /\ pc = "done"
    /\ chunk_size >= 1
    /\ Len(pdf_files) = 2
    /\ DocChunks(pdf_files[1], chunk_size) # <<>>
    /\ DocChunks(pdf_files[2], chunk_size) # <<>>
    /\ docs[1] # docs[Len(docs)]

\* ----------------------------------------------------------------- claim C3
\* C3: for a target size C >= 1 every emitted chunk is non-empty and shorter
\* than C + (longest sentence of the document) + floor(C/4).
C3_ChunkSizeBound ==
    chunk_size >= 1 =>
        /\ \A k \in 1..Len(chunks) :
              /\ chunks[k] # <<>>
              /\ Len(chunks[k]) <
                    chunk_size + MaxSentenceLen(clean_sentences) + overlap_size
        /\ \A k \in 1..Len(docs) : docs[k] # <<>>

C3_Witness ==
    /\ chunk_size >= 1
    /\ Len(chunks) >= 2
    /\ \E k \in 1..Len(chunks) : Len(chunks[k]) > chunk_size

\* ----------------------------------------------------------------- claim C4
\* C4: when a chunk A is emitted, the sentences that start the next chunk B
\* before the sentence that triggered the flush are a suffix of A's sentences
\* in their order, of total length strictly below floor(C/4); and a document's
\* first chunk starts with no overlap.
C4_OverlapIsBoundedSuffix ==
    [][ /\ FlushStep =>
            LET ovs == SubSeq(sentence_buffer', 1, Len(sentence_buffer') - 1)
            IN /\ Last(sentence_buffer') = clean_sentences[si]
               /\ IsSuffix(ovs, sentence_buffer)
               /\ SumLen(ovs) < overlap_size
        /\ (pc = "accumulate" /\ si = 1 /\ pc' = "accumulate") =>
               sentence_buffer' = <<clean_sentences[1]>>
      ]_vars

\* ----------------------------------------------------------------- claim C5
\* C5: with a non-positive target size, or with an overlap budget of zero and
\* a document that has sentences, no chunk is ever emitted.
C5_FailFast ==
    (chunk_size <= 0 \/ (overlap_size = 0 /\ clean_sentences # <<>>)) =>
        chunks = <<>> /\ docs = <<>>

\* ----------------------------------------------------------------- claim C6
\* C6: in the handler of a file that raised, and on return, the collection
\* and the counts are those of the files that opened among the ones taken so
\* far: a file that raised added nothing, and the files after it are
\* processed as if it had not been there.
C6_FailedFileLeavesNoTrace ==
    pc \in {"except", "done"} =>
        LET taken == IF pc = "done" THEN Len(pdf_files) ELSE fi
            opened == SelectSeq(SubSeq(pdf_files, 1, taken), LAMBDA f : f.ok)
            expected == LoadChunks(opened, chunk_size)
        IN /\ docs = expected
           /\ stats.chunks = Len(expected)
           /\ stats.total_chars = LoadChars(opened)

C6_Witness ==
    /\ pc = "done"
    /\ Len(pdf_files) = 2
    /\ ~pdf_files[1].ok
    /\ pdf_files[2].ok
    /\ docs # <<>>
    /\ stats.total_chars > 0

\* ----------------------------------------------------------------- claim C7
\* C7: on return the file count is the number of input files, the chunk count
\* is the length of the collection and total_chars is the normalised length
\* of the files that opened with non-empty text; a file whose normalised text
\* is empty has no chunks.
C7_StatsMatchCollection ==
    /\ pc = "done" =>
          /\ stats.files = Len(pdf_files)
          /\ stats.chunks = Len(docs)
          /\ stats.total_chars =
                LoadChars(SelectSeq(OpenedFiles, LAMBDA f : DocText(f) # <<>>))
    /\ (Fresh /\ full_text = <<>>) => chunks = <<>>
    /\ (pc = "split" /\ full_text = <<>>) =>
          stats.total_chars =
              LoadChars(SelectSeq(SubSeq(pdf_files, 1, fi - 1), LAMBDA f : f.ok))

C7_Witness ==
    /\ pc = "done"
    /\ Len(pdf_files) = 2
    /\ pdf_files[1].ok
    /\ DocText(pdf_files[1]) = <<>>
    /\ pdf_files[2].ok
    /\ stats.chunks >= 1
    /\ stats.total_chars > 0

\* ----------------------------------------------------------------- claim C8
\* The text the scan has built from the last m sentences of buf: each
\* followed by one space.
RECURSIVE OverlapText(_, _)
OverlapText(buf, m) ==
    IF m = 0 THEN <<>>
    ELSE buf[Len(buf) - m + 1] \o <<" ">> \o OverlapText(buf, m - 1)

\* The last m sentences of buf are those a scan takes that prepends a
\* sentence exactly when len(sentence) + sep + len(overlap so far) < budget
\* and stops at the first sentence that fails this.
ScanTakes(buf, m, sep, budget) ==
    /\ m <= Len(buf)
    /\ \A q \in 1..m :
          Len(buf[Len(buf) - q + 1]) + sep + Len(OverlapText(buf, q - 1)) < budget
    /\ \/ m = Len(buf)
       \/ ~(Len(buf[Len(buf) - m]) + sep + Len(OverlapText(buf, m)) < budget)

\* The buffer after a flush is the sentences the scan took, in their order,
\* followed by the sentence that triggered the flush.
SeededByScan(sep) ==
    LET m == Len(sentence_buffer') - 1
    IN /\ ScanTakes(sentence_buffer, m, sep, overlap_size)
       /\ sentence_buffer' =
              SubSeq(sentence_buffer, Len(sentence_buffer) - m + 1,
                     Len(sentence_buffer)) \o <<clean_sentences[si]>>
       /\ current_chunk' =
              OverlapText(sentence_buffer, m) \o clean_sentences[si] \o <<" ">>

\* C8 as stated: a sentence is prepended exactly when
\* len(sentence) + len(overlapText) < floor(C/4).
C8_ScanWithoutSeparator == [][FlushStep => SeededByScan(0)]_vars

\* C8 amended: a sentence is prepended exactly when
\* len(sentence) + 1 + len(overlapText) < floor(C/4), the 1 being the space
\* put after it; the scan stops at the first sentence that fails this.
C8_ScanCountsSeparator == [][FlushStep => SeededByScan(1)]_vars

\* A flush whose scan took one sentence and stopped at an older one.
C8_Witness ==
    /\ pc = "accumulate"
    /\ branch = "flush"
    /\ Len(sentence_buffer) = 2
    /\ Len(Last(chunks)) > Len(sentence_buffer[1])
    /\ IsSuffix(sentence_buffer[1], Last(chunks))

C10_StartOnlyWhenOversized ==
    /\ branch = "start" => si = 2 /\ Len(clean_sentences[1]) >= chunk_size
    /\ (pc = "accumulate" /\ si >= 2) => current_chunk # <<>>

\* C10 amended: ... and its sentence is at least C - 1 long.
C10_StartOnlyWhenNotFitting ==
    /\ branch = "start" => si = 2 /\ Len(clean_sentences[1]) >= chunk_size - 1
    /\ (pc = "accumulate" /\ si >= 2) => current_chunk # <<>>

C10_Witness ==
    /\ branch = "start"
    /\ chunk_size >= 1
    /\ Len(clean_sentences) >= 2

====
